---------------------------- MODULE Spec2Model ----------------------------
(***************************************************************************)
(* A model of the SharePoint automation client: the error mapper           *)
(* (src/src/error.py), the tree model (src/src/tree.py) and the tree       *)
(* builder and folder download of the client (src/src/sharepoint.py).      *)
(*                                                                         *)
(* Text is modelled as a sequence of tokens.  A token is an atom of text   *)
(* (a word, a number, a separator); no token is the concatenation of       *)
(* others, so splitting, suffix tests, replacement and JSON parsing are    *)
(* computed on the sequence the way the code computes them on characters.  *)
(***************************************************************************)
EXTENDS Integers, Sequences, FiniteSets, TLC

\* Bounds of the model.
MaxFolders == 2
MaxFiles == 2
MaxIterations == 2

(***************************************************************************)
(* Text helpers                                                            *)
(***************************************************************************)

\* str.split(sep): the parts of s between the occurrences of sep.
RECURSIVE split(_, _)
split(s, sep) ==
    IF \A i \in 1..Len(s) : s[i] # sep
    THEN <<s>>
    ELSE LET i == CHOOSE k \in 1..Len(s) :
                     s[k] = sep /\ \A j \in 1..(k - 1) : s[j] # sep
         IN  <<SubSeq(s, 1, i - 1)>> \o split(SubSeq(s, i + 1, Len(s)), sep)

\* str.endswith(suffix) for a one-token suffix.
endswith(s, suffix) == Len(s) > 0 /\ s[Len(s)] = suffix

\* str.replace(old, ""): s with every occurrence of the token old removed.
RECURSIVE replace_with_empty(_, _)
replace_with_empty(s, old) ==
    IF s = <<>> THEN <<>>
    ELSE (IF Head(s) = old THEN <<>> ELSE <<Head(s)>>)
             \o replace_with_empty(Tail(s), old)

(***************************************************************************)
(* json.loads on the token text: an object of string keys whose values     *)
(* are strings or numbers, a bare string, a bare number; anything else is  *)
(* a JSONDecodeError.                                                      *)
(***************************************************************************)
Q == "\""
Punctuation == {"{", "}", ":", ",", Q}
Numbers == {"123"}

JsonValue(t, v) == [t |-> t, v |-> v]
JsonDecodeError == [kind |-> "JSONDecodeError", obj |-> <<>>]

\* The members of an object, s starting at a key; acc is the object so far
\* (a later duplicate key wins, as in Python).
RECURSIVE json_members(_, _)
json_members(s, acc) ==
    IF Len(s) >= 5 /\ s[1] = Q /\ s[2] \notin Punctuation /\ s[3] = Q /\ s[4] = ":"
    THEN LET key == s[2]
             isStr == Len(s) >= 7 /\ s[5] = Q /\ s[6] \notin Punctuation /\ s[7] = Q
             isNum == s[5] \in Numbers
             val == IF isStr THEN JsonValue("str", s[6]) ELSE JsonValue("num", s[5])
             rest == IF isStr THEN SubSeq(s, 8, Len(s)) ELSE SubSeq(s, 6, Len(s))
             acc2 == [k \in DOMAIN acc \cup {key} |-> IF k = key THEN val ELSE acc[k]]
         IN  IF ~(isStr \/ isNum) THEN JsonDecodeError
             ELSE IF rest = <<"}">> THEN [kind |-> "object", obj |-> acc2]
             ELSE IF Len(rest) >= 1 /\ rest[1] = ","
                  THEN json_members(Tail(rest), acc2)
             ELSE JsonDecodeError
    ELSE JsonDecodeError

json_loads(s) ==
    IF s = <<"{", "}">> THEN [kind |-> "object", obj |-> <<>>]
    ELSE IF Len(s) >= 1 /\ s[1] = "{" THEN json_members(Tail(s), <<>>)
    ELSE IF Len(s) = 3 /\ s[1] = Q /\ s[2] \notin Punctuation /\ s[3] = Q
         THEN [kind |-> "str", obj |-> <<>>]
    ELSE IF Len(s) = 1 /\ s[1] \in Numbers THEN [kind |-> "num", obj |-> <<>>]
    ELSE JsonDecodeError

(***************************************************************************)
(* Exceptions.  type is the class, args the constructor arguments (each a  *)
(* text), code the text of str(exc.code) of a ClientRequestException, and  *)
(* error_details the diagnostic payload of a domain error.                 *)
(***************************************************************************)
Exc(type, args, code, details) ==
    [type |-> type, args |-> args, code |-> code, error_details |-> details]

PyError(type, message) == Exc(type, <<<<message>>>>, <<>>, <<>>)

\* SPException.format_error_message
format_error_message(class_name, message, error_details) ==
    <<class_name, " - ", message, " ", "Error details: ">>
        \o error_details.code \o <<", ">> \o error_details.exception_name

\* SPException.__init__ and its four subclasses
SPException(class_name, error_details, message) ==
    Exc(class_name, <<format_error_message(class_name, message, error_details)>>,
        <<>>, error_details)

SPFolderNotFoundError(error_details) ==
    SPException("SPFolderNotFoundError", error_details, "Folder not found")
SPFileNotFoundError(error_details) ==
    SPException("SPFileNotFoundError", error_details, "File not found")
SPListNotFoundError(error_details) ==
    SPException("SPListNotFoundError", error_details, "List not found")
SPFileAlreadyExistsError(error_details) ==
    SPException("SPFileAlreadyExistsError", error_details,
                "File already exists. Choose 'overwrite=True' to overwrite.")

InvalidClientIDError(error_details) ==
    Exc("InvalidClientIDError", <<<<"Unknown client ID. ">>>>, <<>>, error_details)
InvalidClientSecretError(error_details) ==
    Exc("InvalidClientSecretError", <<<<"Unknown client secret. ">>>>, <<>>, error_details)
InvalidSiteUrlError ==
    Exc("InvalidSiteUrlError",
        <<<<"InvalidSiteUrlError", " - Invalid site URL. Check the URL and try again.">>>>,
        <<>>, <<>>)
FormatNotSupportedError(error_message) ==
    Exc("FormatNotSupportedError", <<<<error_message>>>>, <<>>, <<>>)

\* The identifiers of the vendor's enumeration of list templates that the
\* calls of this model name, in the order of the class dictionary, and their
\* codes.
TemplateIdentifiers == <<"GenericList", "DocumentLibrary", "Tasks">>
TemplateCodes == [GenericList |-> 100, DocumentLibrary |-> 101, Tasks |-> 107]

\* ListTemplateNotFoundError.__init__: the message lists the names of the
\* enumeration's dictionary that are not dunder names.
ListTemplateNotFoundError(template_name) ==
    Exc("ListTemplateNotFoundError",
        <<<<"List template '", template_name, "' not found. ", "Choose from: ">>
              \o TemplateIdentifiers>>,
        <<>>, <<>>)

\* The classes whose construction writes an error log record.
LoggingClasses ==
    {"SPFolderNotFoundError", "SPFileNotFoundError", "SPListNotFoundError",
     "SPFileAlreadyExistsError", "InvalidClientIDError", "InvalidClientSecretError",
     "InvalidSiteUrlError", "FormatNotSupportedError", "ListTemplateNotFoundError"}

(***************************************************************************)
(* The error mapper                                                        *)
(***************************************************************************)

\* The mapping on the (code, exception name) pair of a transport exception.
map_client_request_error_Unguarded(exc, code, exc_name, error_details) ==
    IF exc_name = <<"System.IO.FileNotFoundException">>
    THEN SPFolderNotFoundError(error_details)
    ELSE IF exc_name = <<"Microsoft.SharePoint.SPException">>
    THEN SPFileNotFoundError(error_details)
    ELSE IF exc_name = <<"System.ArgumentException">> /\ code = <<"-1">>
    THEN SPListNotFoundError(error_details)
    ELSE exc

map_client_request_error(exc, code, exc_name, error_details) ==
    IF exc_name = <<"System.IO.FileNotFoundException">>
    THEN SPFolderNotFoundError(error_details)
    ELSE IF exc_name = <<"Microsoft.SharePoint.SPException">> /\ code = <<"-2130575338">>
    THEN SPFileNotFoundError(error_details)
    ELSE IF exc_name = <<"Microsoft.SharePoint.SPException">> /\ code = <<"-2130575257">>
    THEN SPFileAlreadyExistsError(error_details)
    ELSE IF exc_name = <<"System.ArgumentException">> /\ code = <<"-1">>
    THEN SPListNotFoundError(error_details)
    ELSE exc

\* a variant that files the code and the exception name under each other's key
ErrorDetails_Misfiled(code, exception_name, message, exception_details) ==
    [code |-> exception_name, exception_name |-> code,
     message |-> message, exception_details |-> exception_details]

\* The ErrorDetails dictionary handle_client_request_error builds.
ErrorDetails(code, exception_name, message, exception_details) ==
    [code |-> code, exception_name |-> exception_name,
     message |-> message, exception_details |-> exception_details]

\* The exception handle_client_request_error returns, or the one it raises
\* itself when a tuple unpacking fails.
handle_client_request_error(exc) ==
    IF Len(exc.args) # 3
    THEN PyError("ValueError", "values to unpack (expected 3)")
    ELSE LET parts == split(exc.code, ", ")
         IN  IF Len(parts) # 2
             THEN PyError("ValueError", "values to unpack (expected 2)")
             ELSE map_client_request_error(
                      exc, parts[1], parts[2],
                      ErrorDetails(parts[1], parts[2], exc.args[2], exc.args[3]))

\* The mapping on the 'error' field of a parsed authentication failure.
map_auth_error_Swapped(exc, error_details) ==
    IF error_details["error"] = JsonValue("str", "unauthorized_client")
    THEN InvalidClientSecretError(error_details)
    ELSE IF error_details["error"] = JsonValue("str", "invalid_client")
    THEN InvalidClientIDError(error_details)
    ELSE exc

map_auth_error(exc, error_details) ==
    IF error_details["error"] = JsonValue("str", "unauthorized_client")
    THEN InvalidClientIDError(error_details)
    ELSE IF error_details["error"] = JsonValue("str", "invalid_client")
    THEN InvalidClientSecretError(error_details)
    ELSE exc

\* The exception handle_value_error returns, or the one that escapes its
\* try block (only JSONDecodeError is caught there).
handle_value_error(exc) ==
    IF Len(exc.args) = 0
    THEN PyError("IndexError", "tuple index out of range")
    ELSE LET parsed == json_loads(exc.args[1])
         IN  IF parsed.kind = "JSONDecodeError"
             THEN IF exc.args[1] = <<"Acquire app-only access token failed.">>
                  THEN InvalidSiteUrlError
                  ELSE exc
             ELSE IF parsed.kind # "object"
             THEN PyError("TypeError", "indices must be integers")
             ELSE IF "error" \notin DOMAIN parsed.obj
             THEN PyError("KeyError", "error")
             ELSE map_auth_error(exc, parsed.obj)

\* Subclasses of ValueError reach the ValueError handler too.
ValueErrorClasses == {"ValueError", "JSONDecodeError"}

\* What the wrapper of handle_sharepoint_error raises when the wrapped
\* function raised exc.
handle_sharepoint_error(exc) ==
    IF exc.type = "ClientRequestException" THEN handle_client_request_error(exc)
    ELSE IF exc.type \in ValueErrorClasses THEN handle_value_error(exc)
    ELSE exc

\* exc after passing through n nested wrappers, innermost first: the
\* sequence <<exc, after wrapper 1, ..., after wrapper n>>.
RECURSIVE through_wrappers(_, _)
through_wrappers(exc, n) ==
    IF n = 0 THEN <<exc>>
    ELSE LET inner == through_wrappers(exc, n - 1)
         IN  Append(inner, handle_sharepoint_error(inner[Len(inner)]))


(***************************************************************************)
(* The remote collaborator                                                 *)
(***************************************************************************)

\* What a request to the remote collaborator can raise.  A transport
\* exception built from a JSON response has the three arguments (code,
\* message, response text) and the code of the payload; one built from any
\* other response keeps its single argument and has no code.
ClientRequestException(code) ==
    Exc("ClientRequestException", <<code, <<"message">>, <<"response text">>>>, code, <<>>)

VendorNames ==
    {"System.IO.FileNotFoundException", "Microsoft.SharePoint.SPException",
     "System.ArgumentException", "System.UnauthorizedAccessException"}
VendorCodes == {"-2130575338", "-2130575257", "-1", "-2147024891"}

PairExceptions ==
    {ClientRequestException(<<c, ", ", n>>) : c \in VendorCodes, n \in VendorNames}

OddClientRequestExceptions ==
    {ClientRequestException(<<"None">>),
     ClientRequestException(<<"-1", ", ", "System.ArgumentException", ", ", "x">>),
     Exc("ClientRequestException", <<<<"404 Client Error">>>>, <<"None">>, <<>>)}

JsonError(v) == <<"{", Q, "error", Q, ":", Q, v, Q, "}">>

ValueErrorMessages ==
    {<<"{", Q, "error", Q, ":", Q, "unauthorized_client", Q, ",",
       Q, "error_description", Q, ":", Q, "AADSTS700016", Q, "}">>,
     JsonError("invalid_client"),
     JsonError("invalid_request"),
     <<"{", Q, "error", Q, ":", "123", "}">>,
     <<"{", Q, "error_description", Q, ":", Q, "AADSTS700016", Q, "}">>,
     <<"{", "}">>,
     <<"123">>,
     <<"{", Q, "error", Q>>,
     <<"Acquire app-only access token failed.">>,
     <<"Connection aborted.">>}

ValueErrors ==
    {Exc("ValueError", <<m>>, <<>>, <<>>) : m \in ValueErrorMessages}
        \cup {Exc("ValueError", <<>>, <<>>, <<>>)}

OtherExceptions ==
    {PyError("ConnectionError", "Connection aborted."),
     PyError("JSONDecodeError", "Expecting value")}

Failures ==
    PairExceptions \cup OddClientRequestExceptions \cup ValueErrors \cup OtherExceptions

\* A remote folder hierarchy: folder 0 is the start folder, folders 1..nfolders
\* lie below it (parent[i] < i), and file j lies in folder loc[j].  A folder
\* lists its files and its subfolders in ascending order.
Hierarchies ==
    UNION {
        {[nfolders |-> n, parent |-> p, nfiles |-> m, loc |-> l] :
            p \in {q \in [1..n -> 0..n] : \A i \in 1..n : q[i] < i},
            l \in {q \in [1..m -> 0..n] : \A i, j \in 1..m : i < j => q[i] <= q[j]}}
        : n \in 0..MaxFolders, m \in 0..MaxFiles}

EmptyRemote == [nfolders |-> 0, parent |-> <<>>, nfiles |-> 0, loc |-> <<>>]

Ids(n) == [i \in 1..n |-> i]

\* folder.files and folder.folders of remote folder f
files_of(r, f) == SelectSeq(Ids(r.nfiles), LAMBDA j : r.loc[j] = f)
folders_of(r, f) == SelectSeq(Ids(r.nfolders), LAMBDA i : r.parent[i] = f)

(***************************************************************************)
(* The tree model.  The nodes of a build are numbered in the order they    *)
(* are constructed; parent 0 is None.                                      *)
(***************************************************************************)
Node(obj, type, parent) ==
    [obj |-> obj, type |-> type, parent |-> parent, children |-> <<>>]
FolderNode(obj, parent) == Node(obj, "folder", parent)
FileNode(obj, parent) == Node(obj, "file", parent)

\* a variant that sets the back-reference without appending the child
add_child_NoAppend(ns, p, c) ==
    [ns EXCEPT ![c].parent = p]

\* FolderNode.add_child on node p with child c, over the nodes ns
add_child(ns, p, c) ==
    [ns EXCEPT ![c].parent = p, ![p].children = Append(@, c)]

\* Tree.set_current_node: the only place that increments depth
set_current_node(d) == d + 1

Reverse(s) == [i \in 1..Len(s) |-> s[Len(s) + 1 - i]]

\* a variant that pushes the children in their own order
iter_push_Unreversed(ns, st, n) ==
    IF ns[n].type = "folder" THEN st \o ns[n].children ELSE st

\* Tree.__iter__, after popping node n: the stack with its children pushed
iter_push(ns, st, n) ==
    IF ns[n].type = "folder" THEN st \o Reverse(ns[n].children) ELSE st

Front(s) == SubSeq(s, 1, Len(s) - 1)
Last(s) == s[Len(s)]


(***************************************************************************)
(* The state                                                               *)
(***************************************************************************)
VARIABLES
    remote,        \* the remote hierarchy the fetched folder showed the build
    ctx,           \* SharePoint._ctx: 0 is None, otherwise the session handle
    is_connected,  \* SharePoint.is_connected
    dirs,          \* the local directories of download_folder that exist
    pc,            \* the position of the running call; "idle" between calls
    call,          \* the running (or last) call of the caller and its arguments
    frames,        \* the activations of _get_folder_contents, outermost first
    nodes,         \* the nodes constructed by the build
    root,          \* Tree.root as a node number; 0 when there is no tree
    depth,         \* Tree.depth
    stack,         \* the stack of the running Tree.__iter__
    yielded,       \* the nodes the running (or last) iteration has yielded
    iterations,    \* the iterations the caller started on the returned tree
    raised,        \* <<the exception raised in the body, after each wrapper>>
    raised_in,     \* the function in whose body the exception was raised
    outcome,       \* "none", "returned" or "raised": how the last call ended
    requests,      \* the remote requests and handshakes of the running call
    log,           \* the error log records of the running call
    sent           \* the requests of the running call that write to the remote

vars == <<remote, ctx, is_connected, dirs, pc, call, frames, nodes, root, depth,
          stack, yielded, iterations, raised, raised_in, outcome, requests, log,
          sent>>

NoCall == [op |-> "none", folder |-> "none", recursive |-> FALSE, output |-> <<>>]

\* The output names the caller passes to download_folder.
Paths ==
    {<<"out", ".zip">>, <<".zip">>, <<"out">>, <<"out", ".txt">>, <<".zip", "out">>}

Init ==
    /\ remote = EmptyRemote
    /\ ctx = 0
    /\ is_connected = FALSE
    /\ dirs = {}
    /\ pc = "idle"
    /\ call = NoCall
    /\ frames = <<>>
    /\ nodes = <<>>
    /\ root = 0
    /\ depth = 0
    /\ stack = <<>>
    /\ yielded = <<>>
    /\ iterations = 0
    /\ raised = <<>>
    /\ raised_in = "none"
    /\ outcome = "none"
    /\ requests = 0
    /\ log = 0
    /\ sent = <<>>

\* a variant in which every wrapper a domain error passes writes a record
log_records_PerWrapper(chain) ==
    Cardinality({k \in 1..Len(chain) : chain[k].type \in LoggingClasses})

\* The error log records written while chain was produced: one for each
\* domain error constructed.
log_records(chain) ==
    Cardinality({k \in 1..Len(chain) :
                    /\ chain[k].type \in LoggingClasses
                    /\ (k = 1 \/ chain[k] # chain[k - 1])})

\* Nothing of a build survives a call that does not return its tree.
Discard ==
    /\ frames' = <<>>
    /\ nodes' = <<>>
    /\ root' = 0
    /\ depth' = 0
    /\ stack' = <<>>
    /\ yielded' = <<>>
    /\ iterations' = 0
    /\ remote' = EmptyRemote

\* a variant in which the call returns what it has instead of raising
Raise_Swallowed(exc, n, site, log0) ==
    LET chain == through_wrappers(exc, n)
    IN  /\ pc' = "idle"
        /\ outcome' = "returned"
        /\ raised' = chain
        /\ raised_in' = site
        /\ log' = log0 + log_records(chain)
        /\ frames' = <<>>
        /\ stack' = <<>>
        /\ yielded' = <<>>
        /\ iterations' = 0
        /\ UNCHANGED <<remote, nodes, root, depth>>

\* The call ends with exc, raised in the body of site and passing through n
\* wrappers of handle_sharepoint_error on its way to the caller.
Raise(exc, n, site, log0) ==
    LET chain == through_wrappers(exc, n)
    IN  /\ pc' = "idle"
        /\ outcome' = "raised"
        /\ raised' = chain
        /\ raised_in' = site
        /\ log' = log0 + log_records(chain)
        /\ Discard

\* A call starts from a clean slate of everything but the client and the
\* local disk.
Fresh ==
    /\ raised' = <<>>
    /\ raised_in' = "none"
    /\ outcome' = "none"
    /\ frames' = <<>>
    /\ nodes' = <<>>
    /\ root' = 0
    /\ depth' = 0
    /\ stack' = <<>>
    /\ yielded' = <<>>
    /\ iterations' = 0
    /\ sent' = <<>>

Frame(folder, parent_node) ==
    [folder |-> folder, parent |-> parent_node, node |-> 0, fi |-> 1, si |-> 1]


(***************************************************************************)
(* The tree builder                                                        *)
(***************************************************************************)

\* The caller calls _get_folder_contents(folder, recursive) with a path, a
\* folder handle or something else.
get_folder_contents(folder, recursive) ==
    /\ pc = "idle"
    /\ call' = [op |-> "get_folder_contents", folder |-> folder,
                recursive |-> recursive, output |-> <<>>]
    /\ remote' = EmptyRemote
    /\ pc' = "resolve"
    /\ requests' = 0
    /\ log' = 0
    /\ Fresh
    /\ UNCHANGED <<ctx, is_connected, dirs, sent>>

\* folder is neither a path nor a folder handle
type_error ==
    /\ pc = "resolve"
    /\ call.folder = "other"
    /\ Raise(PyError("TypeError", "Expected folder to be of type 'str' or 'Folder'"),
             1, "_get_folder_contents", log)
    /\ UNCHANGED <<ctx, is_connected, dirs, sent, call, requests>>

\* folder is a folder handle: no fetch, the handle shows the hierarchy
folder_handle ==
    /\ pc = "resolve"
    /\ call.folder = "Folder"
    /\ remote' \in Hierarchies
    /\ frames' = <<Frame(0, 0)>>
    /\ pc' = "node"
    /\ UNCHANGED <<ctx, is_connected, dirs, sent, call, nodes, root, depth, stack,
                   yielded, iterations, raised, raised_in, outcome, requests, log>>

\* a variant that makes the handshake at every access
needs_connect_Always(session) == TRUE

\* SharePoint.ctx: 'if self._ctx is None'
needs_connect(session) == session = 0

\* The wrappers above the body of _connect: its own, and those of the
\* functions between it and the caller (_folder under _get_folder_contents
\* or upload_file; create_list alone).
connect_wrappers(at) == IF at = "create" THEN 2 ELSE 3

\* SharePoint.ctx finds no session handle and calls _connect: a new handle
\* is stored, then the handshake request is made.
_connect ==
    /\ \/ pc = "resolve" /\ call.folder = "str"
       \/ pc \in {"upload_resolve", "create"}
    /\ needs_connect(ctx)
    /\ ctx' = ctx + 1
    /\ requests' = requests + 1
    /\ \/ /\ is_connected' = TRUE
          /\ UNCHANGED <<remote, dirs, sent, pc, call, frames, nodes, root, depth, stack,
                         yielded, iterations, raised, raised_in, outcome, log>>
       \/ /\ \E exc \in Failures : Raise(exc, connect_wrappers(pc), "_connect", log)
          /\ UNCHANGED <<is_connected, dirs, sent, call>>

\* _folder(folder_url, ["Files", "Folders"]) called by _get_folder_contents:
\* the folder is loaded, then loaded again with its files and folders.
\* _folder(remote_folder_url) called by upload_file: the folder is loaded.
_folder ==
    /\ \/ pc = "resolve" /\ call.folder = "str"
       \/ pc = "upload_resolve"
    /\ ~needs_connect(ctx)
    /\ IF pc = "resolve"
       THEN \/ /\ requests' = requests + 2
               /\ remote' \in Hierarchies
               /\ frames' = <<Frame(0, 0)>>
               /\ pc' = "node"
               /\ UNCHANGED <<ctx, is_connected, dirs, sent, call, nodes, root, depth,
                              stack, yielded, iterations, raised, raised_in, outcome,
                              log>>
            \/ /\ \E k \in 1..2 : requests' = requests + k
               /\ \E exc \in Failures : Raise(exc, 2, "_folder", log)
               /\ UNCHANGED <<ctx, is_connected, dirs, sent, call>>
       ELSE /\ requests' = requests + 1
            /\ \/ /\ pc' = "upload"
                  /\ UNCHANGED <<remote, ctx, is_connected, dirs, sent, call, frames,
                                 nodes, root, depth, stack, yielded, iterations, raised,
                                 raised_in, outcome, log>>
               \/ /\ \E exc \in Failures : Raise(exc, 2, "_folder", log)
                  /\ UNCHANGED <<ctx, is_connected, dirs, sent, call>>

\* The running activation makes its folder node: the root of a new tree, or
\* a child of parent_node.
folder_node ==
    /\ pc = "node"
    /\ LET fr == Last(frames)
           id == Len(nodes) + 1
       IN  /\ IF root = 0
              THEN /\ nodes' = Append(nodes, FolderNode(fr.folder, 0))
                   /\ root' = id
                   /\ depth' = 0
              ELSE /\ nodes' = add_child(Append(nodes, FolderNode(fr.folder, fr.parent)),
                                         fr.parent, id)
                   /\ UNCHANGED <<root, depth>>
           /\ frames' = [frames EXCEPT ![Len(frames)].node = id]
           /\ pc' = IF files_of(remote, fr.folder) = <<>> THEN "folders" ELSE "files"
    /\ UNCHANGED <<remote, ctx, is_connected, dirs, sent, call, stack, yielded, iterations,
                   raised, raised_in, outcome, requests, log>>

\* One round of the loop over root_folder.files.
file_node ==
    /\ pc = "files"
    /\ LET fr == Last(frames)
           fs == files_of(remote, fr.folder)
           id == Len(nodes) + 1
       IN  /\ nodes' = add_child(Append(nodes, FileNode(fs[fr.fi], fr.node)), fr.node, id)
           /\ frames' = [frames EXCEPT ![Len(frames)].fi = @ + 1]
           /\ pc' = IF fr.fi = Len(fs) THEN "folders" ELSE "files"
    /\ UNCHANGED <<remote, ctx, is_connected, dirs, sent, call, root, depth, stack, yielded,
                   iterations, raised, raised_in, outcome, requests, log>>

\* a variant that descends whatever the flag
descends_Always(recursive) == TRUE

\* 'if not recursive: break' lets the loop over the subfolders go on
descends(recursive) == recursive

\* a variant that hangs every subfolder under the root of the tree
call_parent_node_Root(parent_node, tree_root) == tree_root

\* the parent_node argument of the recursive call
call_parent_node(parent_node, tree_root) == parent_node

\* One round of the loop over root_folder.folders that descends: the
\* subfolder is fetched with its files and folders, and the builder calls
\* itself on it.
subfolder ==
    /\ pc = "folders"
    /\ LET fr == Last(frames)
           subs == folders_of(remote, fr.folder)
       IN  /\ fr.si <= Len(subs)
           /\ descends(call.recursive)
           /\ requests' = requests + 1
           /\ \/ /\ frames' = Append([frames EXCEPT ![Len(frames)].si = @ + 1],
                                     Frame(subs[fr.si], call_parent_node(fr.node, root)))
                 /\ pc' = "node"
                 /\ UNCHANGED <<remote, nodes, root, depth, stack, yielded, iterations,
                                raised, raised_in, outcome, log>>
              \/ \E exc \in Failures : Raise(exc, Len(frames), "_get_folder_contents", log)
    /\ UNCHANGED <<ctx, is_connected, dirs, sent, call>>

\* The loop over the subfolders ends or breaks and the activation returns
\* the tree: to the activation that called it, to the caller, or to
\* download_folder.
return_tree ==
    /\ pc = "folders"
    /\ LET fr == Last(frames)
           subs == folders_of(remote, fr.folder)
       IN  fr.si > Len(subs) \/ ~descends(call.recursive)
    /\ frames' = Front(frames)
    /\ IF Len(frames) > 1
       THEN UNCHANGED <<pc, outcome, stack>>
       ELSE IF call.op = "get_folder_contents"
            THEN pc' = "idle" /\ outcome' = "returned" /\ UNCHANGED stack
            ELSE pc' = "download" /\ stack' = <<root>> /\ UNCHANGED outcome
    /\ UNCHANGED <<remote, ctx, is_connected, dirs, sent, call, nodes, root, depth, yielded,
                   iterations, raised, raised_in, requests, log>>

(***************************************************************************)
(* Iteration of the returned tree                                          *)
(***************************************************************************)

\* The caller starts 'for node in tree'.
iter_start ==
    /\ pc = "idle"
    /\ outcome = "returned"
    /\ root # 0
    /\ iterations < MaxIterations
    /\ stack' = <<root>>
    /\ yielded' = <<>>
    /\ iterations' = iterations + 1
    /\ pc' = "iterating"
    /\ UNCHANGED <<remote, ctx, is_connected, dirs, sent, call, frames, nodes, root, depth,
                   raised, raised_in, outcome, requests, log>>

\* One round of the generator's loop; the iteration ends with the stack.
iter_next ==
    /\ pc = "iterating"
    /\ LET node == Last(stack)
           st == iter_push(nodes, Front(stack), node)
       IN  /\ stack' = st
           /\ yielded' = Append(yielded, node)
           /\ pc' = IF st = <<>> THEN "idle" ELSE "iterating"
    /\ UNCHANGED <<remote, ctx, is_connected, dirs, sent, call, frames, nodes, root, depth,
                   iterations, raised, raised_in, outcome, requests, log>>

(***************************************************************************)
(* download_folder                                                         *)
(***************************************************************************)

\* a variant that accepts the suffix anywhere in the name
accepts_output_Anywhere(output_zip_file) ==
    \E i \in 1..Len(output_zip_file) : output_zip_file[i] = ".zip"

\* the format check on the output name
accepts_output(output_zip_file) == endswith(output_zip_file, ".zip")

\* The caller calls download_folder: the format check, then the output and
\* the staging directory are made.
download_folder(folder_url, output_zip_file, recursive) ==
    /\ pc = "idle"
    /\ call' = [op |-> "download_folder", folder |-> folder_url,
                recursive |-> recursive, output |-> output_zip_file]
    /\ requests' = 0
    /\ IF ~accepts_output(output_zip_file)
       THEN /\ Raise(FormatNotSupportedError(
                         "Only .zip files are supported for downloading folders."),
                     0, "download_folder", 0)
            /\ sent' = <<>>
            /\ UNCHANGED dirs
       ELSE IF replace_with_empty(output_zip_file, ".zip") = <<>>
       THEN /\ Raise(PyError("FileNotFoundError", "No such file or directory: ''"),
                     0, "download_folder", 0)
            /\ sent' = <<>>
            /\ UNCHANGED dirs
       ELSE /\ dirs' = dirs \cup {"base_name", "temp_dir"}
            /\ remote' = EmptyRemote
            /\ pc' = "resolve"
            /\ log' = 0
            /\ Fresh
    /\ UNCHANGED <<ctx, is_connected>>

\* One round of 'for node in tree' on a folder node: nothing is downloaded.
download_skip ==
    /\ pc = "download"
    /\ nodes[Last(stack)].type # "file"
    /\ LET node == Last(stack)
           st == iter_push(nodes, Front(stack), node)
       IN  /\ stack' = st
           /\ yielded' = Append(yielded, node)
           /\ pc' = IF st = <<>> THEN "archive" ELSE "download"
    /\ UNCHANGED <<remote, ctx, is_connected, dirs, sent, call, frames, nodes, root, depth,
                   iterations, raised, raised_in, outcome, requests, log>>

\* One round on a file node: download_file fetches the file with _file and
\* downloads its content.
download_file ==
    /\ pc = "download"
    /\ nodes[Last(stack)].type = "file"
    /\ \/ /\ LET node == Last(stack)
                 st == iter_push(nodes, Front(stack), node)
             IN  /\ stack' = st
                 /\ yielded' = Append(yielded, node)
                 /\ pc' = IF st = <<>> THEN "archive" ELSE "download"
          /\ requests' = requests + 2
          /\ UNCHANGED <<remote, frames, nodes, root, depth, iterations, raised,
                         raised_in, outcome, log>>
       \/ /\ requests' = requests + 1
          /\ \E exc \in Failures : Raise(exc, 2, "_file", log)
       \/ /\ requests' = requests + 2
          /\ \E exc \in Failures : Raise(exc, 1, "download_file", log)
    /\ UNCHANGED <<ctx, is_connected, dirs, sent, call>>

\* The staging directory is archived and removed, and download_folder
\* returns.
archive ==
    /\ pc = "archive"
    /\ dirs' = dirs \ {"temp_dir"}
    /\ pc' = "idle"
    /\ outcome' = "returned"
    /\ Discard
    /\ UNCHANGED <<ctx, is_connected, call, raised, raised_in, requests, log, sent>>

(***************************************************************************)
(* len(tree)                                                               *)
(***************************************************************************)

\* The methods class Tree defines.
TreeMethods ==
    {"__init__", "set_current_node", "to_dict", "__iter__", "__str__", "__repr__"}

\* The caller calls len(tree) on the returned tree: the class defines no
\* __len__, and the builtin raises.
len_tree ==
    /\ pc = "idle"
    /\ outcome = "returned"
    /\ root # 0
    /\ "__len__" \notin TreeMethods
    /\ call' = [op |-> "len"]
    /\ Raise(PyError("TypeError", "object of type 'Tree' has no len()"), 0, "len", log)
    /\ UNCHANGED <<ctx, is_connected, dirs, requests, sent>>

(***************************************************************************)
(* upload_file                                                             *)
(***************************************************************************)

max_chunk_size_bytes == 250 * 1024 * 1024
default_chunk_size_bytes == 10 * 1024 * 1024

\* chunk_size_bytes is None (a negative number stands for it)
is_None(chunk_size_bytes) == chunk_size_bytes < 0

\* The sizes of the local file and the chunk sizes the caller passes: around
\* the default chunk size and around the limit.
FileSizes ==
    {default_chunk_size_bytes - 1, default_chunk_size_bytes, default_chunk_size_bytes + 1,
     max_chunk_size_bytes, max_chunk_size_bytes + 1}
ChunkSizes ==
    {-1, default_chunk_size_bytes, max_chunk_size_bytes, max_chunk_size_bytes + 1}

\* a variant that holds the size of the file against the limit
exceeds_limit_FileSize(total_bytes, chunk_size_bytes) ==
    total_bytes > max_chunk_size_bytes

\* 'if chunk_size_bytes > max_chunk_size_bytes'
exceeds_limit(total_bytes, chunk_size_bytes) ==
    chunk_size_bytes > max_chunk_size_bytes

\* a variant that sends a file of exactly one chunk through the session
single_request_Strict(total_bytes, chunk_size_bytes) ==
    total_bytes < chunk_size_bytes

\* 'if total_bytes <= chunk_size_bytes'
single_request(total_bytes, chunk_size_bytes) ==
    total_bytes <= chunk_size_bytes

\* The caller calls upload_file: the size of the local file is read and the
\* chunk size is checked.
upload_file(total_bytes, chunk_size_bytes) ==
    /\ pc = "idle"
    /\ call' = [op |-> "upload_file", total_bytes |-> total_bytes,
                chunk_size_bytes |-> chunk_size_bytes]
    /\ requests' = 0
    /\ IF total_bytes > max_chunk_size_bytes /\ is_None(chunk_size_bytes)
       THEN /\ Raise(PyError("ValueError",
                             "File size is greater than 250 MB. Please specify a chunk size to upload the file."),
                     1, "upload_file", 0)
            /\ sent' = <<>>
       ELSE IF is_None(chunk_size_bytes)
       THEN /\ Raise(PyError("TypeError",
                             "'>' not supported between instances of 'NoneType' and 'int'"),
                     1, "upload_file", 0)
            /\ sent' = <<>>
       ELSE IF exceeds_limit(total_bytes, chunk_size_bytes)
       THEN /\ Raise(PyError("ValueError",
                             "Chunk size should be less than 262,144,000 bytes (250 MB)."),
                     1, "upload_file", 0)
            /\ sent' = <<>>
       ELSE /\ remote' = EmptyRemote
            /\ pc' = "upload_resolve"
            /\ log' = 0
            /\ Fresh
    /\ UNCHANGED <<ctx, is_connected, dirs>>

\* The file goes to the folder in one request, or through an upload session
\* of chunks; execute_query sends it.
upload_request ==
    /\ pc = "upload"
    /\ sent' = Append(sent,
                      IF single_request(call.total_bytes, call.chunk_size_bytes)
                      THEN [kind |-> "files.add", arg |-> call.total_bytes]
                      ELSE [kind |-> "files.create_upload_session",
                            arg |-> call.chunk_size_bytes])
    /\ requests' = requests + 1
    /\ \/ /\ pc' = "idle"
          /\ outcome' = "returned"
          /\ UNCHANGED <<remote, frames, nodes, root, depth, stack, yielded, iterations,
                         raised, raised_in, log>>
       \/ \E exc \in Failures : Raise(exc, 1, "upload_file", log)
    /\ UNCHANGED <<ctx, is_connected, dirs, call>>

(***************************************************************************)
(* create_list                                                             *)
(***************************************************************************)

\* The names the caller passes as template_name.
TemplateNames == {"GenericList", "Tasks", "NoSuchTemplate", "get", ""}

\* ListTemplateType.get: getattr on the class finds the identifiers of the
\* enumeration and the methods the class defines; an AttributeError gives None.
ListTemplateType_get(name) ==
    IF name \in DOMAIN TemplateCodes
    THEN [kind |-> "int", value |-> TemplateCodes[name]]
    ELSE IF name \in {"get", "__init__"}
    THEN [kind |-> "method", value |-> 0]
    ELSE [kind |-> "None", value |-> 0]

\* The caller calls create_list: the template name is resolved.
create_list(list_name, description, template_name) ==
    /\ pc = "idle"
    /\ call' = [op |-> "create_list", template_name |-> template_name]
    /\ requests' = 0
    /\ IF ListTemplateType_get(template_name).kind = "None"
       THEN /\ Raise(ListTemplateNotFoundError(template_name), 1, "create_list", 0)
            /\ sent' = <<>>
       ELSE /\ remote' = EmptyRemote
            /\ pc' = "create"
            /\ log' = 0
            /\ Fresh
    /\ UNCHANGED <<ctx, is_connected, dirs>>

\* ListCreationInformation(list_name, None, ListTemplateType.Tasks) goes to
\* the lists of the site.
lists_add ==
    /\ pc = "create"
    /\ ~needs_connect(ctx)
    /\ sent' = Append(sent, [kind |-> "lists.add", arg |-> TemplateCodes["Tasks"]])
    /\ requests' = requests + 1
    /\ \/ /\ pc' = "idle"
          /\ outcome' = "returned"
          /\ UNCHANGED <<remote, frames, nodes, root, depth, stack, yielded, iterations,
                         raised, raised_in, log>>
       \/ \E exc \in Failures : Raise(exc, 1, "create_list", log)
    /\ UNCHANGED <<ctx, is_connected, dirs, call>>

FolderArguments == {"str", "Folder", "other"}

Next ==
    \/ \E folder \in FolderArguments, recursive \in BOOLEAN :
           get_folder_contents(folder, recursive)
    \/ type_error
    \/ folder_handle
    \/ _connect
    \/ _folder
    \/ folder_node
    \/ file_node
    \/ subfolder
    \/ return_tree
    \/ iter_start
    \/ iter_next
    \/ \E output_zip_file \in Paths, recursive \in BOOLEAN :
           download_folder("str", output_zip_file, recursive)
    \/ download_skip
    \/ download_file
    \/ archive
    \/ len_tree
    \/ \E total_bytes \in FileSizes, chunk_size_bytes \in ChunkSizes :
           upload_file(total_bytes, chunk_size_bytes)
    \/ upload_request
    \/ \E template_name \in TemplateNames : create_list("list", "text", template_name)
    \/ lists_add

Spec == Init /\ [][Next]_vars


(***************************************************************************)
(* Vocabulary of the properties                                            *)
(***************************************************************************)

\* A transport exception whose code is a 'code, exception_name' pair.
IsPair(exc) ==
    /\ exc.type = "ClientRequestException"
    /\ Len(exc.code) = 3
    /\ exc.code[2] = ", "
PairCode(exc) == exc.code[1]
PairName(exc) == exc.code[3]

\* The class the mapping table gives the pair (code, name).
TableClass(code, name) ==
    IF name = "System.IO.FileNotFoundException" THEN "SPFolderNotFoundError"
    ELSE IF name = "Microsoft.SharePoint.SPException" /\ code = "-2130575338"
    THEN "SPFileNotFoundError"
    ELSE IF name = "Microsoft.SharePoint.SPException" /\ code = "-2130575257"
    THEN "SPFileAlreadyExistsError"
    ELSE IF name = "System.ArgumentException" /\ code = "-1"
    THEN "SPListNotFoundError"
    ELSE "ClientRequestException"

\* The message of a ValueError that has one.
HasMessage(exc) == exc.type = "ValueError" /\ Len(exc.args) >= 1
Message(exc) == exc.args[1]

\* A JSON object whose first field is 'error', and the value of that field.
IsJsonErrorBody(m) ==
    /\ Len(m) >= 7
    /\ SubSeq(m, 1, 5) = <<"{", Q, "error", Q, ":">>
    /\ m[Len(m)] = "}"
ErrorField(m) == IF m[6] = Q THEN m[7] ELSE "(not a string)"

\* A message that is not JSON text at all.
IsPlainMessage(m) ==
    /\ Len(m) >= 1
    /\ m[1] \notin Punctuation \cup Numbers

\* The class the mapping table gives an authentication failure message.
AuthClass(m) ==
    IF IsJsonErrorBody(m) /\ ErrorField(m) = "unauthorized_client"
    THEN "InvalidClientIDError"
    ELSE IF IsJsonErrorBody(m) /\ ErrorField(m) = "invalid_client"
    THEN "InvalidClientSecretError"
    ELSE IF m = <<"Acquire app-only access token failed.">>
    THEN "InvalidSiteUrlError"
    ELSE "ValueError"

\* exc matches a row of the mapping table.
MatchesTable(exc) ==
    \/ IsPair(exc) /\ TableClass(PairCode(exc), PairName(exc)) # "ClientRequestException"
    \/ HasMessage(exc) /\ AuthClass(Message(exc)) # "ValueError"

\* A call ended by an exception that passed at least one wrapper.
RaisedThroughWrapper == outcome = "raised" /\ Len(raised) >= 2

\* C1: an exception that matches no row of the mapping table leaves the
\* wrapper as the same exception, unchanged.
C1_UnmappedPropagatesUnchanged ==
    (RaisedThroughWrapper /\ ~MatchesTable(raised[1])) => raised[2] = raised[1]

\* C2: a transport exception with a (code, exception_name) pair is mapped as
\* the table says: folder-not-found for System.IO.FileNotFoundException with
\* any code, file-not-found and file-already-exists for the two SPException
\* codes, list-not-found for System.ArgumentException with -1, and the
\* original exception for every other pair.
C2_PairMapping ==
    (RaisedThroughWrapper /\ IsPair(raised[1])) =>
        LET class == TableClass(PairCode(raised[1]), PairName(raised[1]))
        IN  /\ raised[2].type = class
            /\ class = "ClientRequestException" => raised[2] = raised[1]

C2_Witness ==
    /\ RaisedThroughWrapper
    /\ IsPair(raised[1])
    /\ PairName(raised[1]) = "Microsoft.SharePoint.SPException"
    /\ PairCode(raised[1]) = "-2130575338"
    /\ raised[2].type = "SPFileNotFoundError"

\* C3: an authentication failure raised as a ValueError during connect
\* becomes invalid-client-id for error = 'unauthorized_client',
\* invalid-client-secret for error = 'invalid_client', invalid-site-url for
\* the plain message 'Acquire app-only access token failed.'; with any other
\* 'error' value or plain message the original ValueError propagates; and
\* that is what reaches the caller.
C3_AuthMapping ==
    (/\ RaisedThroughWrapper
     /\ raised_in = "_connect"
     /\ HasMessage(raised[1])
     /\ IsJsonErrorBody(Message(raised[1])) \/ IsPlainMessage(Message(raised[1]))) =>
        LET class == AuthClass(Message(raised[1]))
        IN  /\ raised[2].type = class
            /\ class = "ValueError" => raised[2] = raised[1]
            /\ Last(raised) = raised[2]

C3_Witness ==
    /\ RaisedThroughWrapper
    /\ raised_in = "_connect"
    /\ HasMessage(raised[1])
    /\ IsJsonErrorBody(Message(raised[1]))
    /\ ErrorField(Message(raised[1])) = "unauthorized_client"
    /\ Len(raised) = 4
    /\ Last(raised).type = "InvalidClientIDError"


(***************************************************************************)
(* Trees                                                                   *)
(***************************************************************************)

\* The nodes under node n, n included, in depth-first pre-order: n, then
\* the subtree of each child in the order of the children list.
RECURSIVE preorder(_)
RECURSIVE preorder_all(_)
preorder(n) == <<n>> \o preorder_all(nodes[n].children)
preorder_all(cs) ==
    IF cs = <<>> THEN <<>> ELSE preorder(Head(cs)) \o preorder_all(Tail(cs))

\* The number of nodes under n, n included, by summing over the children.
RECURSIVE count_nodes(_)
RECURSIVE count_all(_)
count_nodes(n) == 1 + count_all(nodes[n].children)
count_all(cs) ==
    IF cs = <<>> THEN 0 ELSE count_nodes(Head(cs)) + count_all(Tail(cs))

Range(s) == {s[i] : i \in 1..Len(s)}
NoDuplicates(s) == \A i, j \in 1..Len(s) : i # j => s[i] # s[j]

\* The objects and the types along a children list.
Objects(cs) == [i \in 1..Len(cs) |-> nodes[cs[i]].obj]
Types(cs) == [i \in 1..Len(cs) |-> nodes[cs[i]].type]
Repeat(x, n) == [i \in 1..n |-> x]

\* The node of remote folder f, and the node of remote file j.
FolderNodesOf(f) == {n \in 1..Len(nodes) : nodes[n].type = "folder" /\ nodes[n].obj = f}
FileNodesOf(j) == {n \in 1..Len(nodes) : nodes[n].type = "file" /\ nodes[n].obj = j}

\* _get_folder_contents has returned the tree of a build to the caller.
Built(recursive) ==
    /\ call.op = "get_folder_contents"
    /\ outcome = "returned"
    /\ call.recursive = recursive

\* C4: a non-recursive build of a folder with N files and any number of
\* subfolders yields exactly 1 + N nodes: the root folder node, and one file
\* node per direct file in the order the remote returned them; no folder
\* node but the root appears.
C4_NonRecursiveBuild ==
    Built(FALSE) =>
        LET fs == files_of(remote, 0)
        IN  /\ Len(nodes) = 1 + Len(fs)
            /\ count_nodes(root) = 1 + Len(fs)
            /\ nodes[root].type = "folder"
            /\ nodes[root].obj = 0
            /\ Objects(nodes[root].children) = fs
            /\ Types(nodes[root].children) = Repeat("file", Len(fs))
            /\ \A n \in 1..Len(nodes) : nodes[n].type = "folder" => n = root

C4_Witness ==
    /\ Built(FALSE)
    /\ Len(folders_of(remote, 0)) = 2
    /\ Len(files_of(remote, 0)) = 1
    /\ remote.nfiles = 2
    /\ count_nodes(root) = 2

\* C5: a recursive build mirrors the remote hierarchy: one folder node per
\* folder, a child of the node of its remote parent; one file node per file,
\* a child of the node of its folder; each folder node lists its files, then
\* its subfolders, in the remote's order; the node count is 1 + the number of
\* files and subfolders at every level.
C5_RecursiveBuildMirrors ==
    Built(TRUE) =>
        /\ Len(nodes) = 1 + remote.nfolders + remote.nfiles
        /\ count_nodes(root) = 1 + remote.nfolders + remote.nfiles
        /\ FolderNodesOf(0) = {root}
        /\ \A f \in 0..remote.nfolders :
               /\ Cardinality(FolderNodesOf(f)) = 1
               /\ \A n \in FolderNodesOf(f) :
                      /\ f # 0 => nodes[n].parent \in FolderNodesOf(remote.parent[f])
                      /\ Objects(nodes[n].children)
                             = files_of(remote, f) \o folders_of(remote, f)
                      /\ Types(nodes[n].children)
                             = Repeat("file", Len(files_of(remote, f)))
                                   \o Repeat("folder", Len(folders_of(remote, f)))
        /\ \A j \in 1..remote.nfiles :
               /\ Cardinality(FileNodesOf(j)) = 1
               /\ \A n \in FileNodesOf(j) :
                      nodes[n].parent \in FolderNodesOf(remote.loc[j])

C5_Witness ==
    /\ Built(TRUE)
    /\ remote.nfolders = 2
    /\ remote.parent = <<0, 1>>
    /\ remote.loc = <<1, 2>>
    /\ count_nodes(root) = 5

\* C6: every full iteration of the tree, a second one included, yields every
\* node reachable from the root exactly once in depth-first pre-order, as
\* many nodes as the recursive sum over the children counts; a running
\* iteration has yielded a prefix of that order.
C6_IterationPreorder ==
    /\ (pc = "idle" /\ iterations >= 1) =>
           /\ yielded = preorder(root)
           /\ NoDuplicates(yielded)
           /\ Len(yielded) = count_nodes(root)
    /\ pc = "iterating" =>
           /\ Len(yielded) < count_nodes(root)
           /\ yielded = SubSeq(preorder(root), 1, Len(yielded))

C6_Witness ==
    /\ pc = "idle"
    /\ iterations = 2
    /\ Len(yielded) = 5
    /\ remote.parent = <<0, 0>>
    /\ remote.loc = <<0, 1>>

\* Every node but the root has a parent that is a folder node listing it
\* exactly once, and no other node lists it.
ParentsAgree ==
    /\ nodes[root].parent = 0
    /\ \A n \in 1..Len(nodes) :
           n # root =>
               LET p == nodes[n].parent
               IN  /\ p \in 1..Len(nodes)
                   /\ nodes[p].type = "folder"
                   /\ Cardinality({i \in 1..Len(nodes[p].children) :
                                       nodes[p].children[i] = n}) = 1
                   /\ \A q \in 1..Len(nodes) :
                          q # p => n \notin Range(nodes[q].children)
    /\ \A n \in 1..Len(nodes) : root \notin Range(nodes[n].children)

\* A node keeps its parent for as long as it exists.
ParentKept ==
    \A n \in 1..Len(nodes) :
        n <= Len(nodes') => nodes'[n].parent = nodes[n].parent

\* C7: after any build the root has no parent and every other node has a
\* parent that is a folder node of the tree whose children list holds it
\* exactly once; no node is in the children of two folder nodes; and a
\* node's parent never changes once it is attached.
C7_SingleParent ==
    /\ [](\A r \in BOOLEAN : Built(r) => ParentsAgree)
    /\ [][ParentKept]_vars

C7_Witness ==
    /\ Built(TRUE)
    /\ remote.parent = <<0, 1>>
    /\ remote.loc = <<0, 2>>
    /\ ParentsAgree

\* C8: after a recursive build that attached k folder nodes below the root,
\* depth = k.
C8_DepthCountsFolders ==
    Built(TRUE) => depth = Cardinality({n \in 1..Len(nodes) :
                                            nodes[n].type = "folder" /\ n # root})

\* C9: when download_folder returns or raises after it created the staging
\* directory, the staging directory no longer exists.
C9_StagingReleased ==
    (/\ pc = "idle"
     /\ call.op = "download_folder"
     /\ outcome = "returned" \/ (outcome = "raised" /\ raised_in # "download_folder")) =>
        "temp_dir" \notin dirs

\* The output name does not end in '.zip'.
NotZip(output) == Len(output) = 0 \/ output[Len(output)] # ".zip"

\* C10: download_folder with an output name that does not end in '.zip'
\* raises the unsupported-format error, with no remote request or handshake
\* made and no directory created.
C10_FormatCheckedFirst ==
    /\ []((call.op = "download_folder" /\ NotZip(call.output)) =>
              /\ pc = "idle"
              /\ outcome = "raised"
              /\ Len(raised) = 1
              /\ raised[1].type = "FormatNotSupportedError"
              /\ requests = 0)
    /\ [][(call'.op = "download_folder" /\ NotZip(call'.output)) =>
              (dirs' = dirs /\ ctx' = ctx /\ is_connected' = is_connected)]_vars

C10_Witness ==
    /\ call.op = "download_folder"
    /\ call.output = <<".zip", "out">>
    /\ outcome = "raised"
    /\ raised[1].type = "FormatNotSupportedError"
    /\ dirs = {}
    /\ ctx = 0

(***************************************************************************)
(* The session handle, failures of a build, the diagnostic payload         *)
(***************************************************************************)

\* The running call reaches the remote through the session handle of the
\* client (a folder handle the caller passes brings its own).
UsesSession ==
    \/ call.op \in {"download_folder", "upload_file", "create_list"}
    \/ call.op = "get_folder_contents" /\ call.folder = "str"

\* C11: construction makes no handshake and leaves the handle unset; the
\* first request of a client without a handle is the handshake, which sets
\* the handle; and once a handshake has succeeded, no step of any later call
\* replaces the handle or makes another handshake.
C11_OneHandshake ==
    /\ ctx = 0 /\ ~is_connected /\ requests = 0
    /\ [][(UsesSession /\ ctx = 0 /\ requests' > requests) =>
              (ctx' = 1 /\ requests' = requests + 1)]_vars
    /\ [][is_connected => (ctx' = ctx /\ is_connected')]_vars

C11_Witness ==
    /\ is_connected
    /\ ctx = 1
    /\ call.op = "create_list"
    /\ outcome = "returned"
    /\ requests = 1
    /\ Len(sent) = 1

\* C12: a build in which a fetch failed, at the handshake, at the fetch of
\* the folder or at the expansion of a subfolder at any depth, ends raised
\* with no tree, and a failure the table maps reaches the caller as the class
\* of the table; a build that returned a tree met no failure.
C12_FailedFetchRaises ==
    call.op = "get_folder_contents" =>
        /\ raised # <<>> =>
               /\ pc = "idle"
               /\ outcome = "raised"
               /\ root = 0
               /\ nodes = <<>>
               /\ IsPair(raised[1]) =>
                      Last(raised).type = TableClass(PairCode(raised[1]),
                                                     PairName(raised[1]))
        /\ outcome = "returned" => (raised = <<>> /\ root # 0)

C12_Witness ==
    /\ call.op = "get_folder_contents"
    /\ call.recursive
    /\ raised_in = "_get_folder_contents"
    /\ Len(raised) = 3
    /\ IsPair(raised[1])
    /\ Last(raised).type = "SPFolderNotFoundError"
    /\ outcome = "raised"
    /\ requests = 4
    /\ root = 0

\* The domain errors of the mapper: those made from a transport exception,
\* and those made from an authentication failure.
SPClasses ==
    {"SPFolderNotFoundError", "SPFileNotFoundError", "SPListNotFoundError",
     "SPFileAlreadyExistsError"}
AuthClasses == {"InvalidClientIDError", "InvalidClientSecretError"}
MapperClasses == SPClasses \cup AuthClasses \cup {"InvalidSiteUrlError"}

\* C13 as the specification states it: every domain error of the mapper
\* carries the raw vendor detail of the failure it was mapped from.
C13_EveryDomainErrorCarriesDetail ==
    (RaisedThroughWrapper /\ raised[2].type \in MapperClasses) =>
        raised[2].error_details # <<>>

\* C13, amended: a domain error made from a transport exception carries the
\* vendor code, the exception name, the message and the payload of that
\* exception; invalid-client-id and invalid-client-secret carry the parsed
\* body of the authentication failure; invalid-site-url carries no detail.
C13_DetailsCarried ==
    RaisedThroughWrapper =>
        /\ raised[2].type \in SPClasses =>
               /\ IsPair(raised[1])
               /\ raised[2].error_details.code = <<PairCode(raised[1])>>
               /\ raised[2].error_details.exception_name = <<PairName(raised[1])>>
               /\ raised[2].error_details.message = raised[1].args[2]
               /\ raised[2].error_details.exception_details = raised[1].args[3]
        /\ raised[2].type \in AuthClasses =>
               /\ HasMessage(raised[1])
               /\ raised[2].error_details = json_loads(Message(raised[1])).obj
               /\ "error" \in DOMAIN raised[2].error_details
        /\ raised[2].type = "InvalidSiteUrlError" => raised[2].error_details = <<>>

C13_Witness ==
    /\ RaisedThroughWrapper
    /\ raised_in = "_folder"
    /\ raised[1] = ClientRequestException(
                       <<"-2147024891", ", ", "System.IO.FileNotFoundException">>)
    /\ raised[2].type = "SPFolderNotFoundError"
    /\ raised[2].error_details.code = <<"-2147024891">>

(***************************************************************************)
(* upload_file, create_list, len(tree), nested wrappers                    *)
(***************************************************************************)

\* C14: an upload that reached its request made exactly one, the single
\* request when the file is no larger than the chunk size (equal included),
\* the upload session when it is larger; an upload that returned made one.
C14_UploadPath ==
    call.op = "upload_file" =>
        /\ Len(sent) <= 1
        /\ (pc = "idle" /\ outcome = "returned") => Len(sent) = 1
        /\ sent # <<>> =>
               /\ call.total_bytes <= call.chunk_size_bytes =>
                      sent[1] = [kind |-> "files.add", arg |-> call.total_bytes]
               /\ call.total_bytes >= call.chunk_size_bytes + 1 =>
                      sent[1] = [kind |-> "files.create_upload_session",
                                 arg |-> call.chunk_size_bytes]

C14_Witness ==
    /\ call.op = "upload_file"
    /\ outcome = "returned"
    /\ call.total_bytes = default_chunk_size_bytes
    /\ call.chunk_size_bytes = default_chunk_size_bytes
    /\ sent = <<[kind |-> "files.add", arg |-> default_chunk_size_bytes]>>

\* The error of the size policy.
ChunkSizeError ==
    PyError("ValueError", "Chunk size should be less than 262,144,000 bytes (250 MB).")

\* The running call is an upload with a chunk size above 250 MiB.
OversizedChunk(c) ==
    c.op = "upload_file" /\ c.chunk_size_bytes > 262144000

\* C15: an upload with a chunk size above 262,144,000 ends at once, whatever
\* the size of the file, with the size-policy error, which passes the wrapper
\* unchanged; no request is made and the session handle is not touched.
C15_ChunkLimit ==
    /\ [](OversizedChunk(call) =>
              /\ pc = "idle"
              /\ outcome = "raised"
              /\ raised = <<ChunkSizeError, ChunkSizeError>>
              /\ requests = 0
              /\ sent = <<>>)
    /\ [][OversizedChunk(call') =>
              (ctx' = ctx /\ is_connected' = is_connected)]_vars

C15_Witness ==
    /\ OversizedChunk(call)
    /\ call.total_bytes = default_chunk_size_bytes - 1
    /\ outcome = "raised"
    /\ raised[2] = ChunkSizeError
    /\ ctx = 0

\* C16: create_list with a template name that is not an identifier of the
\* enumeration ends at once with the template-not-found error, with no
\* request made, and the message of the error names an identifier.
C16_UnknownTemplateRaises ==
    (call.op = "create_list" /\ call.template_name \notin Range(TemplateIdentifiers)) =>
        /\ pc = "idle"
        /\ outcome = "raised"
        /\ raised[1].type = "ListTemplateNotFoundError"
        /\ Last(raised) = raised[1]
        /\ requests = 0
        /\ \E i \in 1..Len(raised[1].args[1]) :
               raised[1].args[1][i] \in Range(TemplateIdentifiers)

\* C17: len(tree) on a built tree is defined: the call returns (and what it
\* returns is the number of nodes an iteration yields).
C17_LenDefined ==
    call.op = "len" => outcome = "returned"

\* C18: when the innermost wrapper raised a domain error of the mapper, every
\* wrapper around it raises that same error, and the call wrote exactly one
\* error log record.
C18_MappedOnce ==
    (RaisedThroughWrapper /\ raised[2].type \in MapperClasses) =>
        /\ \A k \in 2..Len(raised) : raised[k] = raised[2]
        /\ log = 1

C18_Witness ==
    /\ call.op = "get_folder_contents"
    /\ raised_in = "_connect"
    /\ Len(raised) = 4
    /\ raised[2].type = "InvalidClientSecretError"
    /\ raised[4] = raised[2]
    /\ log = 1

\* C19: the session handle is set only if is_connected is true: a failed
\* handshake leaves the handle unset.
C19_HandleOnlyIfConnected ==
    ctx # 0 => is_connected

\* C20: the list-creation request carries the identifier the template name
\* resolved to.
C20_RequestCarriesTemplate ==
    (/\ call.op = "create_list"
     /\ ListTemplateType_get(call.template_name).kind = "int"
     /\ sent # <<>>) =>
        sent = <<[kind |-> "lists.add", arg |-> TemplateCodes[call.template_name]]>>

=============================================================================
